---- MODULE Spec2Model ----
(***************************************************************************)
(* The nboost Proxy (src/nboost/proxy/__init__.py): construction of the    *)
(* routing table, the track() latency wrapper and the five request         *)
(* pipelines (search, train, status, not_found, error), run as coroutines  *)
(* on the listener's single cooperative event loop.                        *)
(*                                                                         *)
(* Values that collaborators return are opaque to the Proxy.  They are     *)
(* modelled as terms that record which operation built them from which     *)
(* arguments, so that the data flow of a pipeline can be read back from    *)
(* the value it ends with.  The duration handed to Db.lap is a wall-clock  *)
(* difference; a latency sample is modelled by its (cls, name) ident.      *)
(*                                                                         *)
(* The Proxy is constructed by a calling thread, which then uses it as a   *)
(* scope (__enter__ / __exit__); the listener runs in a thread of its own. *)
(* The calling thread's steps are taken at the idle points of the          *)
(* listener's loop: the two threads share the Server's life-cycle state    *)
(* and the readiness signal only, which no handler reads or writes.        *)
(***************************************************************************)
EXTENDS Naturals, Integers, Sequences, FiniteSets, Bags, TLC

\* number of requests the listener accepts in one run
MaxReqs == 2
\* number of distinct exception values a collaborator may raise
NumErrors == 2

Reqs == 1..MaxReqs
Errors == 1..NumErrors

VARIABLES
    phase,      \* "new" before Proxy.__init__ has run, then "constructed"
                \* or "failed"
    app,        \* what Server.create_app was given
    server,     \* listener life cycle: "created", "started", "serving",
                \* "stopping", "stopped"
    is_ready,   \* the readiness signal delegated from the Server
    task,       \* per request: the handler coroutine's position and locals
    trace,      \* per request: calls, latency samples and outcomes, in order
    laps,       \* bag of the idents handed to Db.lap
    running,    \* the request whose coroutine holds the event loop, 0 if none
    caller,     \* the thread that constructs the Proxy and uses it as a scope
    calls,      \* the Server operations the Proxy has invoked, in order
    last_status \* the mapping of the status run that returned last, NoneVal
                \* once anything else has run since

vars ==
    <<phase, app, server, is_ready, task, trace, laps, running, caller, calls,
      last_status>>

----------------------------------------------------------------------------
(* Values *)

Val(kind, cls, name, part, args) ==
    [kind |-> kind, cls |-> cls, name |-> name, part |-> part, args |-> args]

NoneVal == Val("none", "", "", 0, <<>>)

\* the Request object the listener builds for the i-th connection
Request(i) == Val("request", "Listener", "Request", i, <<>>)

\* what a collaborator operation returns for the given arguments
Result(ident, args) == Val("value", ident[1], ident[2], 0, args)

\* the n-th exception a collaborator operation may raise
Raised(ident, args, n) == Val("exception", ident[1], ident[2], n, args)

\* the coroutine object a suspending collaborator operation returns
Awaitable(ident, args) == Val("awaitable", ident[1], ident[2], 0, args)

isawaitable(res) == res.kind = "awaitable"

\* the n-th component of a tuple-valued result
Part(v, n) == [v EXCEPT !.part = n]

\* *v for a tuple of n components
Star(v, n) == [p \in 1..n |-> Part(v, p)]

\* the literal {} of status()
EmptyDict == Val("dict", "", "", 0, <<>>)

DictKeys(d) == {d.args[p].cls : p \in 1..Len(d.args)}

----------------------------------------------------------------------------
(* Proxy.__init__: collaborators, track() and the pipeline functions *)

\* class names of the four collaborator instances and of the Proxy itself
ServerCls == "BaseServer"
ModelCls == "BaseModel"
CodexCls == "BaseCodex"
DbCls == "BaseDb"
ProxyCls == "Proxy"

\* a bound method of a collaborator instance (it has __self__)
Method(cls, name) == [self |-> cls, name |-> name]

\* a plain function defined inside Proxy.__init__ (no __self__)
Function(name) == [self |-> "", name |-> name]

\* a track() that names every sample after the Proxy
identOwnedByProxy(f) == <<ProxyCls, f.name>>

\* ident of track(f): the class of the object containing f, or the Proxy
ident(f) ==
    IF f.self # "" THEN <<f.self, f.name>> ELSE <<ProxyCls, f.name>>

\* a decorator that catches what the wrapped operation raises and returns
\* None in its place
decoratorSwallowsFailure(id, outcome) ==
    IF outcome.st = "raise"
    THEN [st |-> "ret", val |-> NoneVal, lap |-> <<>>]
    ELSE [st |-> "ret", val |-> outcome.val, lap |-> <<id>>]

\* a decorator that reports every failure as one generic exception
decoratorMasksFailure(id, outcome) ==
    IF outcome.st = "raise"
    THEN [st |-> "raise", val |-> Val("exception", "", "", 0, <<>>), lap |-> <<>>]
    ELSE [st |-> "ret", val |-> outcome.val, lap |-> <<id>>]

\* a decorator that forgets to return what the wrapped operation returned
decoratorReturnsNone(id, outcome) ==
    IF outcome.st = "raise"
    THEN [st |-> "raise", val |-> outcome.val, lap |-> <<>>]
    ELSE [st |-> "ret", val |-> NoneVal, lap |-> <<id>>]

\* The decorator built by track(f), given the outcome of awaiting f(*args):
\* what its caller observes and the samples it hands to db.lap.
decorator(id, outcome) ==
    IF outcome.st = "raise"
    THEN [st |-> "raise", val |-> outcome.val, lap |-> <<>>]
    ELSE [st |-> "ret", val |-> outcome.val, lap |-> <<id>>]

\* a track() that hands back f itself, so that the call records nothing
TrackedAsPlain(f, args, dst) ==
    [id |-> ident(f), args |-> args, dst |-> dst, trk |-> FALSE]

\* a call made through track(f)(*args), its result bound to local dst
Tracked(f, args, dst) ==
    [id |-> ident(f), args |-> args, dst |-> dst, trk |-> TRUE]

\* a plain call f(*args), its result bound to local dst
Plain(f, args, dst) ==
    [id |-> <<f.self, f.name>>, args |-> args, dst |-> dst, trk |-> FALSE]

LocalNames == {"_1", "_2", "_3", "_4", "_5", "_6", "_7"}

\* search() packing with the request of the first client, not its own
searchPacksFirstRequest(l) == <<
    Tracked(Method(CodexCls, "magnify"), <<l["_1"]>>, "_2"),
    Tracked(Method(ServerCls, "ask"), <<l["_2"]>>, "_3"),
    Tracked(Method(CodexCls, "parse"), <<l["_2"], l["_3"]>>, "_4"),
    Tracked(Method(ModelCls, "rank"), Star(l["_4"], 2), "_5"),
    Tracked(Method(DbCls, "save"), Star(l["_4"], 2), "_6"),
    Tracked(Method(CodexCls, "pack"),
            <<Request(1), l["_3"]>> \o Star(l["_4"], 2) \o <<l["_5"]>>
                \o Star(l["_6"], 2), "_7") >>

\* search() with the rank and save statements exchanged
searchSaveBeforeRank(l) == <<
    Tracked(Method(CodexCls, "magnify"), <<l["_1"]>>, "_2"),
    Tracked(Method(ServerCls, "ask"), <<l["_2"]>>, "_3"),
    Tracked(Method(CodexCls, "parse"), <<l["_2"], l["_3"]>>, "_4"),
    Tracked(Method(DbCls, "save"), Star(l["_4"], 2), "_6"),
    Tracked(Method(ModelCls, "rank"), Star(l["_4"], 2), "_5"),
    Tracked(Method(CodexCls, "pack"),
            <<l["_1"], l["_3"]>> \o Star(l["_4"], 2) \o <<l["_5"]>>
                \o Star(l["_6"], 2), "_7") >>

\* search() asking the search api for the client's request, not the larger one
searchAsksOriginal(l) == <<
    Tracked(Method(CodexCls, "magnify"), <<l["_1"]>>, "_2"),
    Tracked(Method(ServerCls, "ask"), <<l["_1"]>>, "_3"),
    Tracked(Method(CodexCls, "parse"), <<l["_2"], l["_3"]>>, "_4"),
    Tracked(Method(ModelCls, "rank"), Star(l["_4"], 2), "_5"),
    Tracked(Method(DbCls, "save"), Star(l["_4"], 2), "_6"),
    Tracked(Method(CodexCls, "pack"),
            <<l["_1"], l["_3"]>> \o Star(l["_4"], 2) \o <<l["_5"]>>
                \o Star(l["_6"], 2), "_7") >>

search(l) == <<
    Tracked(Method(CodexCls, "magnify"), <<l["_1"]>>, "_2"),
    Tracked(Method(ServerCls, "ask"), <<l["_2"]>>, "_3"),
    Tracked(Method(CodexCls, "parse"), <<l["_2"], l["_3"]>>, "_4"),
    Tracked(Method(ModelCls, "rank"), Star(l["_4"], 2), "_5"),
    Tracked(Method(DbCls, "save"), Star(l["_4"], 2), "_6"),
    Tracked(Method(CodexCls, "pack"),
            <<l["_1"], l["_3"]>> \o Star(l["_4"], 2) \o <<l["_5"]>>
                \o Star(l["_6"], 2), "_7") >>

\* train() acknowledging before it trains
trainAckFirst(l) == <<
    Tracked(Method(CodexCls, "pluck"), <<l["_1"]>>, "_2"),
    Tracked(Method(DbCls, "get"), Star(l["_2"], 2), "_3"),
    Tracked(Method(CodexCls, "ack"), Star(l["_2"], 2), "_4"),
    Tracked(Method(ModelCls, "train"), Star(l["_3"], 3), "") >>

train(l) == <<
    Tracked(Method(CodexCls, "pluck"), <<l["_1"]>>, "_2"),
    Tracked(Method(DbCls, "get"), Star(l["_2"], 2), "_3"),
    Tracked(Method(ModelCls, "train"), Star(l["_3"], 3), ""),
    Tracked(Method(CodexCls, "ack"), Star(l["_2"], 2), "_4") >>

\* status() chaining the model's state before the codex's
statusModelBeforeCodex(l) == <<
    Plain(Method(ServerCls, "chain_state"), <<EmptyDict>>, "_2"),
    Plain(Method(ModelCls, "chain_state"), <<l["_2"]>>, "_3"),
    Plain(Method(CodexCls, "chain_state"), <<l["_3"]>>, "_4"),
    Plain(Method(DbCls, "chain_state"), <<l["_4"]>>, "_5"),
    Plain(Method(CodexCls, "pulse"), <<l["_5"]>>, "_6") >>

status(l) == <<
    Plain(Method(ServerCls, "chain_state"), <<EmptyDict>>, "_2"),
    Plain(Method(CodexCls, "chain_state"), <<l["_2"]>>, "_3"),
    Plain(Method(ModelCls, "chain_state"), <<l["_3"]>>, "_4"),
    Plain(Method(DbCls, "chain_state"), <<l["_4"]>>, "_5"),
    Plain(Method(CodexCls, "pulse"), <<l["_5"]>>, "_6") >>

not_found(l) == <<
    Tracked(Method(ServerCls, "forward"), <<l["_1"]>>, "_2") >>

\* error() handing the codex nothing of what was raised
errorDropsException(l) == <<
    Tracked(Method(CodexCls, "catch"), <<NoneVal>>, "_2") >>

error(l) == <<
    Tracked(Method(CodexCls, "catch"), <<l["_1"]>>, "_2") >>

Pipelines == {"search", "train", "status", "not_found", "error"}

\* the statements of a pipeline function, over its locals
Body(fn, l) ==
    CASE fn = "search" -> search(l)
      [] fn = "train" -> train(l)
      [] fn = "status" -> status(l)
      [] fn = "not_found" -> not_found(l)
      [] fn = "error" -> error(l)

\* train() returning what Db.get gave instead of the acknowledgement
ReturnVarTrainGet(fn) ==
    CASE fn = "search" -> "_7"
      [] fn = "train" -> "_3"
      [] fn = "status" -> "_6"
      [] fn = "not_found" -> "_2"
      [] fn = "error" -> "_2"

\* the local each pipeline function returns
ReturnVar(fn) ==
    CASE fn = "search" -> "_7"
      [] fn = "train" -> "_4"
      [] fn = "status" -> "_6"
      [] fn = "not_found" -> "_2"
      [] fn = "error" -> "_2"

\* path bindings supplied by the codex
codex_SEARCH == "/search"
codex_TRAIN == "/train"
codex_STATUS == "/status"
codex_ERROR == "/error"

\* a routes dict in which the TRAIN path runs the search pipeline
routesTrainRunsSearch ==
    [SEARCH |-> <<codex_SEARCH, "search">>,
     TRAIN |-> <<codex_TRAIN, "search">>,
     STATUS |-> <<codex_STATUS, "status">>,
     ERROR |-> <<codex_ERROR, "error">>]

\* the routes dict of Proxy.__init__: kind -> (path binding, handler)
routes ==
    [SEARCH |-> <<codex_SEARCH, "search">>,
     TRAIN |-> <<codex_TRAIN, "train">>,
     STATUS |-> <<codex_STATUS, "status">>,
     ERROR |-> <<codex_ERROR, "error">>]

\* a create_app that registers the search and train handlers under each
\* other's path
create_appSwapsHandlers(r) ==
    [routes |-> [r EXCEPT !["SEARCH"] = <<r["SEARCH"][1], r["TRAIN"][2]>>,
                          !["TRAIN"] = <<r["TRAIN"][1], r["SEARCH"][2]>>],
     not_found_handler |-> "unset"]

\* Server.create_app as called with the routes alone: no not-found handler
create_app(r) == [routes |-> r, not_found_handler |-> "unset"]

Collaborators == {ServerCls, ModelCls, CodexCls, DbCls}

\* an __init__ that hands the routes to the server before it has its db
initCreatesAppBeforeDb == <<ServerCls, ModelCls, CodexCls, "create_app", DbCls>>

\* Proxy.__init__: the collaborators it instantiates and the Server
\* operation it then calls, in order
__init__ == <<ServerCls, ModelCls, CodexCls, DbCls, "create_app">>

\* Proxy.enter: the Server operations it calls
enter == <<"start">>

\* an exit() that asks for the shutdown and does not wait for it
exitWithoutJoin == <<"exit">>

\* Proxy.exit: the Server operations it calls, in order
exit == <<"exit", "join">>

\* Proxy.__enter__: enter(), then the wait on the readiness signal
__enter__ == enter \o <<"wait">>

\* an __exit__ that leaves the listener running when the body has raised
exitOnlyOnSuccess(exc_type) == IF exc_type = NoneVal THEN exit ELSE <<>>

\* Proxy.__exit__: exit(), whatever ended the scope (exc_type is not read)
__exit__(exc_type) == exit

----------------------------------------------------------------------------
(* Collaborators and the listener's dispatch layer *)

\* Db.lap: one more sample for each ident handed over
RECURSIVE lap(_, _)
lap(b, ids) ==
    IF ids = <<>> THEN b ELSE lap(b (+) SetToBag({Head(ids)}), Tail(ids))

\* a Db whose chain_state adds a key of its own for the status pipeline once
\* it holds a latency sample of it
chain_stateKeyedBySamples(cls, d, b) ==
    LET fragment == IF cls = DbCls THEN BagCardinality(b) ELSE 0
        own == Append(d.args, Val("entry", cls, "state", fragment, <<>>))
    IN [d EXCEPT !.args =
            IF cls = DbCls /\ BagIn(<<ProxyCls, "status">>, b)
            THEN Append(own, Val("entry", "Proxy.status", "state", 0, <<>>))
            ELSE own]

\* X.chain_state(d): d augmented with the component's own entry
chain_state(cls, d, b) ==
    LET fragment == IF cls = DbCls THEN BagCardinality(b) ELSE 0
    IN [d EXCEPT !.args = Append(@, Val("entry", cls, "state", fragment, <<>>))]

\* the value a collaborator operation produces when it completes
Apply(id, args, b) ==
    IF id[2] = "chain_state" THEN chain_state(id[1], args[1], b)
    ELSE Result(id, args)

\* Codex.catch always builds a Response; every other operation may raise
CanRaise(id) == id # <<CodexCls, "catch">>

\* The operations that do network I/O, model inference or training, or
\* persistence access are the ones that may suspend; the codex transcodes
\* in memory.
CanSuspend(id) ==
    id \in {<<ServerCls, "ask">>, <<ServerCls, "forward">>,
            <<ModelCls, "rank">>, <<ModelCls, "train">>,
            <<DbCls, "save">>, <<DbCls, "get">>}

\* paths a client may request
Paths == {codex_SEARCH, codex_TRAIN, codex_STATUS, codex_ERROR, "/other"}

\* the handler the listener picks for a request path
Handler(a, path) ==
    IF \E kind \in DOMAIN a.routes : a.routes[kind][1] = path
    THEN (CHOOSE h \in Pipelines :
            \E kind \in DOMAIN a.routes : a.routes[kind] = <<path, h>>)
    ELSE a.not_found_handler

\* Construction runs the steps of __init__ in order.  Instantiating the
\* collaborator that the exception bad belongs to raises it, which ends the
\* construction; r holds what has been done so far.
RECURSIVE Build(_, _, _)
Build(steps, bad, r) ==
    IF steps = <<>> THEN r
    ELSE IF Head(steps) = "create_app"
    THEN Build(Tail(steps), bad,
               [r EXCEPT !.app = create_app(routes),
                         !.calls = Append(@, "create_app")])
    ELSE IF Head(steps) = bad.cls THEN [r EXCEPT !.exc = bad]
    ELSE Build(Tail(steps), bad, r)

\* The calling thread performs Server operations in order up to the first
\* one that blocks: wait blocks until the readiness signal is set, join until
\* the listener's thread has terminated.  pending tells that the first
\* operation has been invoked already and is being resumed.
RECURSIVE Run(_, _, _, _, _)
Run(ops, s, ready, log, pending) ==
    IF ops = <<>> THEN [todo |-> <<>>, server |-> s, calls |-> log]
    ELSE LET op == Head(ops)
             log2 == IF pending THEN log ELSE Append(log, op)
             blocked == [todo |-> ops, server |-> s, calls |-> log2]
         IN CASE op = "start" ->
                    Run(Tail(ops), IF s = "created" THEN "started" ELSE s,
                        ready, log2, FALSE)
              [] op = "exit" ->
                    Run(Tail(ops),
                        IF s \in {"started", "serving"} THEN "stopping" ELSE s,
                        ready, log2, FALSE)
              [] op = "wait" ->
                    IF ready THEN Run(Tail(ops), s, ready, log2, FALSE)
                    ELSE blocked
              [] op = "join" ->
                    IF s = "stopped" THEN Run(Tail(ops), s, ready, log2, FALSE)
                    ELSE blocked

\* the listener's own answer when no handler is registered for a path
DefaultResponse(req) == Val("value", ServerCls, "default", 0, <<req>>)

----------------------------------------------------------------------------
(* State *)

NoApp == [routes |-> <<>>, not_found_handler |-> "unset"]

NoLocals == [n \in LocalNames |-> NoneVal]

NoTask ==
    [pc |-> "none", path |-> "", fn |-> "", k |-> 0, l |-> NoLocals,
     aw |-> FALSE, st |-> "", out |-> NoneVal]

\* the calling thread before it has used the Proxy: where it is, the Server
\* operations its current call has still to perform, the exception it holds
NoCaller == [at |-> "out", todo |-> <<>>, exc |-> NoneVal]

\* the exception a failing scope body raises
BodyFailure == Val("exception", "", "body", 0, <<>>)

Ev(t, id, trk, args, val) ==
    [t |-> t, id |-> id, trk |-> trk, args |-> args, val |-> val]

\* The events a finished call leaves.  A plain call leaves its outcome
\* ("ret" or "raise").  A tracked call leaves the outcome of the wrapped f
\* ("f_ret" or "f_raise"), the samples handed to db.lap, and then the outcome
\* that the caller of the decorator observes.
Outcome(id, trk, outcome, o) ==
    (IF trk THEN <<Ev("f_" \o outcome.st, id, trk, <<>>, outcome.val)>> ELSE <<>>)
        \o [p \in 1..Len(o.lap) |-> Ev("lap", o.lap[p], TRUE, <<>>, NoneVal)]
        \o <<Ev(o.st, id, trk, <<>>, o.val)>>

Init ==
    /\ phase = "new"
    /\ app = NoApp
    /\ server = "created"
    /\ is_ready = FALSE
    /\ task = [i \in Reqs |-> NoTask]
    /\ trace = [i \in Reqs |-> <<>>]
    /\ laps = EmptyBag
    /\ running = 0
    /\ caller = NoCaller
    /\ calls = <<>>
    /\ last_status = NoneVal

----------------------------------------------------------------------------
(* Actions *)

\* Proxy.__init__: it returns the constructed Proxy, or the instantiation of
\* one collaborator raises and the exception reaches the calling thread
Construct ==
    /\ phase = "new"
    /\ \E bad \in {NoneVal} \cup
                  {Raised(<<c, "__init__">>, <<>>, n) :
                      c \in Collaborators, n \in Errors} :
          LET r == Build(__init__, bad,
                         [app |-> app, calls |-> calls, exc |-> NoneVal])
          IN /\ phase' = IF r.exc = NoneVal THEN "constructed" ELSE "failed"
             /\ app' = r.app
             /\ calls' = r.calls
             /\ caller' = [caller EXCEPT !.exc = r.exc]
    /\ UNCHANGED <<server, is_ready, task, trace, laps, running, last_status>>

\* the calling thread goes on with the Server operations ops of the call it
\* is in; once they are done it is at `after`, as long as one blocks at `at`
Perform(ops, pending, at, after) ==
    LET r == Run(ops, server, is_ready, calls, pending)
    IN /\ server' = r.server
       /\ calls' = r.calls
       /\ caller' = [caller EXCEPT !.at = IF r.todo = <<>> THEN after ELSE at,
                                   !.todo = r.todo]

\* `with proxy:` is entered: Proxy.__enter__ calls enter(), which starts the
\* listener, and then waits on the readiness signal
Enter ==
    /\ phase = "constructed"
    /\ caller.at = "out"
    /\ server = "created"
    /\ Perform(__enter__, FALSE, "acquire", "body")
    /\ UNCHANGED <<phase, app, is_ready, task, trace, laps, running, last_status>>

\* the listener begins to serve and sets the readiness signal
ListenerReady ==
    /\ server = "started"
    /\ server' = "serving"
    /\ is_ready' = TRUE
    /\ UNCHANGED <<phase, app, task, trace, laps, running, caller, calls,
                   last_status>>

\* is_ready.wait() returns in Proxy.__enter__: the scope body begins
WaitReturns ==
    /\ caller.at = "acquire"
    /\ caller.todo # <<>> /\ Head(caller.todo) = "wait"
    /\ is_ready
    /\ Perform(caller.todo, TRUE, "acquire", "body")
    /\ UNCHANGED <<phase, app, is_ready, task, trace, laps, running, last_status>>

\* The scope body ends, normally (exc is NoneVal) or by raising exc:
\* Proxy.__exit__ calls exit(), which asks the listener to shut down and
\* then joins its thread.  __exit__ returns None, so exc stays raised.
\* What a handler does between two idle points of the loop touches nothing
\* that the calling thread reads or writes, so a shutdown request made while
\* a handler runs is the same as one made at the loop's next idle point.
ScopeEnd(exc) ==
    /\ caller.at = "body"
    /\ running = 0
    /\ LET r == Run(__exit__(exc), server, is_ready, calls, FALSE)
       IN /\ server' = r.server
          /\ calls' = r.calls
          /\ caller' = [at |-> IF r.todo = <<>> THEN "released" ELSE "release",
                        todo |-> r.todo, exc |-> exc]
    /\ last_status' = NoneVal
    /\ UNCHANGED <<phase, app, is_ready, task, trace, laps, running>>

\* The listener's loop stops at the idle point at which the shutdown request
\* reaches it and its thread terminates; the handler coroutines still
\* suspended are abandoned.
ListenerStop ==
    /\ server = "stopping"
    /\ running = 0
    /\ server' = "stopped"
    /\ task' = [i \in Reqs |->
                    IF task[i].pc \in {"none", "closed"} THEN task[i]
                    ELSE [NoTask EXCEPT !.pc = "cancelled"]]
    /\ trace' = [i \in Reqs |-> <<>>]
    /\ UNCHANGED <<phase, app, is_ready, laps, running, caller, calls,
                   last_status>>

\* server.join() returns in Proxy.exit: the listener's thread has terminated
JoinReturns ==
    /\ caller.at = "release"
    /\ caller.todo # <<>> /\ Head(caller.todo) = "join"
    /\ server = "stopped"
    /\ Perform(caller.todo, TRUE, "release", "released")
    /\ UNCHANGED <<phase, app, is_ready, task, trace, laps, running, last_status>>

\* a handler coroutine starts: the pipeline's decorator is entered with arg
Invoke(i, path, h, arg) ==
    /\ task' = [task EXCEPT ![i] =
                    [NoTask EXCEPT !.pc = "call", !.path = path, !.fn = h,
                                   !.k = 1, !.l = [NoLocals EXCEPT !["_1"] = arg]]]
    /\ trace' = [trace EXCEPT ![i] =
                    Append(@, Ev("enter", ident(Function(h)), TRUE, <<arg>>, NoneVal))]
    /\ running' = i

\* The listener accepts the i-th request and dispatches it by its path.
\* Clients send their requests while the scope is open: the return of the
\* wait in __enter__ reads and writes nothing that the listener uses, so a
\* request accepted before it is the same as one accepted right after it.
Dispatch(i, path) ==
    /\ server = "serving"
    /\ caller.at = "body"
    /\ running = 0
    /\ task[i].pc = "none"
    /\ \A j \in Reqs : j < i => task[j].pc # "none"
    /\ LET h == Handler(app, path)
       IN IF h \in Pipelines
          THEN Invoke(i, path, h, Request(i))
          ELSE /\ task' = [task EXCEPT ![i] =
                              [NoTask EXCEPT !.pc = "responded", !.path = path,
                                             !.st = "ret",
                                             !.out = DefaultResponse(Request(i))]]
               /\ running' = i
               /\ UNCHANGED trace
    /\ last_status' = IF Handler(app, path) = "status" THEN last_status
                      ELSE NoneVal
    /\ UNCHANGED <<phase, app, server, is_ready, caller, calls, laps>>

\* Statement k of the pipeline body has finished with the given outcome.
\* pre holds the events of the call that come before its outcome.
Settle(i, s, outcome, awaited, pre) ==
    LET t == task[i]
        o == IF s.trk THEN decorator(s.id, outcome)
             ELSE [st |-> outcome.st, val |-> outcome.val, lap |-> <<>>]
        l2 == IF s.dst = "" THEN t.l ELSE [t.l EXCEPT ![s.dst] = o.val]
    IN /\ trace' = [trace EXCEPT ![i] = @ \o pre \o Outcome(s.id, s.trk, outcome, o)]
       /\ laps' = lap(laps, o.lap)
       /\ running' = i
       /\ task' = [task EXCEPT ![i] =
            IF o.st = "raise"
            THEN [t EXCEPT !.pc = "exit", !.st = "raise", !.out = o.val,
                           !.aw = awaited]
            ELSE IF t.k < Len(Body(t.fn, t.l))
            THEN [t EXCEPT !.pc = "call", !.k = t.k + 1, !.l = l2,
                           !.aw = awaited]
            ELSE [t EXCEPT !.pc = "exit", !.st = "ret", !.l = l2,
                           !.out = l2[ReturnVar(t.fn)], !.aw = awaited]]

\* The running coroutine makes the call of its next statement: f(*args)
\* raises, returns a value, or returns an awaitable on which a tracked call
\* suspends.
Call(i) ==
    /\ running = i
    /\ task[i].pc = "call"
    /\ LET t == task[i]
           s == Body(t.fn, t.l)[t.k]
           entered == <<Ev("enter", s.id, s.trk, s.args, NoneVal)>>
       IN \/ \E n \in Errors :
                /\ CanRaise(s.id)
                /\ Settle(i, s, [st |-> "raise", val |-> Raised(s.id, s.args, n)],
                          FALSE, entered)
          \/ \E res \in {Apply(s.id, s.args, laps)}
                            \cup (IF CanSuspend(s.id)
                                  THEN {Awaitable(s.id, s.args)} ELSE {}) :
                IF s.trk /\ isawaitable(res)
                THEN /\ task' = [task EXCEPT ![i].pc = "await", ![i].aw = FALSE]
                     /\ trace' = [trace EXCEPT ![i] = @ \o entered]
                     /\ running' = 0
                     /\ UNCHANGED laps
                ELSE Settle(i, s, [st |-> "ret", val |-> res], FALSE, entered)
    /\ last_status' = IF task[i].fn = "status" THEN last_status ELSE NoneVal
    /\ UNCHANGED <<phase, app, server, is_ready, caller, calls>>

\* the event loop resumes a suspended coroutine: the awaited call has
\* finished, with a value or with an exception
Resume(i) ==
    /\ server = "serving"
    /\ running = 0
    /\ task[i].pc = "await"
    /\ LET t == task[i]
           s == Body(t.fn, t.l)[t.k]
       IN \/ \E n \in Errors :
                /\ CanRaise(s.id)
                /\ Settle(i, s, [st |-> "raise", val |-> Raised(s.id, s.args, n)],
                          TRUE, <<>>)
          \/ Settle(i, s, [st |-> "ret", val |-> Apply(s.id, s.args, laps)],
                    TRUE, <<>>)
    /\ last_status' = NoneVal
    /\ UNCHANGED <<phase, app, server, is_ready, caller, calls>>

\* The pipeline body has returned or raised: the decorator of the pipeline
\* function finishes and hands the outcome to the listener.
Exit(i) ==
    /\ running = i
    /\ task[i].pc = "exit"
    /\ LET t == task[i]
           id == ident(Function(t.fn))
           outcome == [st |-> t.st, val |-> t.out]
           o == decorator(id, outcome)
       IN /\ trace' = [trace EXCEPT ![i] = @ \o Outcome(id, TRUE, outcome, o)]
          /\ laps' = lap(laps, o.lap)
          /\ IF o.st = "ret"
             THEN /\ task' = [task EXCEPT ![i] =
                                 [t EXCEPT !.pc = "responded", !.st = "ret",
                                           !.out = o.val]]
             ELSE /\ task' = [task EXCEPT ![i] =
                                 [t EXCEPT !.pc = "raised", !.st = "raise",
                                           !.out = o.val]]
          /\ running' = i
          /\ last_status' = IF t.fn = "status" /\ o.st = "ret"
                            THEN t.l["_5"] ELSE NoneVal
    /\ UNCHANGED <<phase, app, server, is_ready, caller, calls>>

\* the listener's dispatch layer catches what a handler raised and invokes
\* the handler registered for ERROR with it
DispatchError(i) ==
    /\ running = i
    /\ task[i].pc = "raised"
    /\ Invoke(i, task[i].path, app.routes["ERROR"][2], task[i].out)
    /\ last_status' = NoneVal
    /\ UNCHANGED <<phase, app, server, is_ready, caller, calls, laps>>

\* the listener writes the Response to the client and the connection ends
Send(i) ==
    /\ running = i
    /\ task[i].pc = "responded"
    /\ task' = [task EXCEPT ![i] = [NoTask EXCEPT !.pc = "closed"]]
    /\ trace' = [trace EXCEPT ![i] = <<>>]
    /\ running' = 0
    /\ UNCHANGED <<phase, app, server, is_ready, caller, calls, laps,
                   last_status>>

Next ==
    \/ Construct
    \/ Enter
    \/ ListenerReady
    \/ WaitReturns
    \/ \E exc \in {NoneVal, BodyFailure} : ScopeEnd(exc)
    \/ ListenerStop
    \/ JoinReturns
    \/ \E i \in Reqs, path \in Paths : Dispatch(i, path)
    \/ \E i \in Reqs : Call(i)
    \/ \E i \in Reqs : Resume(i)
    \/ \E i \in Reqs : Exit(i)
    \/ \E i \in Reqs : DispatchError(i)
    \/ \E i \in Reqs : Send(i)

Spec == Init /\ [][Next]_vars

\* the listener's thread is joined by whoever waits for it to terminate
FairSpec == Spec /\ WF_vars(JoinReturns)

TypeOK ==
    /\ phase \in {"new", "constructed", "failed"}
    /\ server \in {"created", "started", "serving", "stopping", "stopped"}
    /\ is_ready \in BOOLEAN
    /\ running \in Reqs \cup {0}
    /\ caller.at \in {"out", "acquire", "body", "release", "released"}
    /\ caller.exc.kind \in {"none", "exception"}
    /\ \A p \in 1..Len(calls) :
          calls[p] \in {"create_app", "start", "wait", "exit", "join"}
    /\ last_status.kind \in {"none", "dict"}
    /\ \A i \in Reqs :
          task[i].pc \in {"none", "call", "await", "exit", "raised", "responded",
                          "closed", "cancelled"}

----------------------------------------------------------------------------
(* Reading a request's trace *)

TrackedOutcome(e) == e.trk /\ e.t \in {"ret", "raise"}

\* the events of calls made by a pipeline body: collaborator operations
IsStep(e) == e.id[1] # ProxyCls /\ e.t \in {"enter", "ret", "raise"}

\* where the handler that the listener dispatched first ends in the trace
FirstEnd(tr) ==
    IF \E p \in 1..Len(tr) : TrackedOutcome(tr[p]) /\ tr[p].id = tr[1].id
    THEN CHOOSE p \in 1..Len(tr) :
            /\ TrackedOutcome(tr[p]) /\ tr[p].id = tr[1].id
            /\ \A q \in 1..(p - 1) : ~(TrackedOutcome(tr[q]) /\ tr[q].id = tr[1].id)
    ELSE Len(tr)

\* the events of the handler that the listener dispatched first
First(i) == SubSeq(trace[i], 1, FirstEnd(trace[i]))

\* the calls a handler made and their outcomes, in order
Steps(tr) == SelectSeq(tr, IsStep)

\* what the call of id returned in tr (NoneVal if it has not returned)
Ret(tr, id) ==
    IF \E p \in 1..Len(tr) : tr[p].t = "ret" /\ tr[p].id = id
    THEN tr[CHOOSE p \in 1..Len(tr) : tr[p].t = "ret" /\ tr[p].id = id].val
    ELSE NoneVal

Has(tr, t, id) == \E p \in 1..Len(tr) : tr[p].t = t /\ tr[p].id = id

\* the arguments the call of id was made with in tr
Args(tr, id) ==
    IF Has(tr, "enter", id)
    THEN tr[CHOOSE p \in 1..Len(tr) : tr[p].t = "enter" /\ tr[p].id = id].args
    ELSE <<>>

\* E lists calls in the given order, each entered after the one before it
\* has finished
InOrder(E, order) ==
    /\ Len(E) <= 2 * Len(order)
    /\ \A m \in 1..Len(E) :
          IF m % 2 = 1
          THEN E[m].t = "enter" /\ E[m].id = order[(m + 1) \div 2]
          ELSE E[m].t \in {"ret", "raise"} /\ E[m].id = order[m \div 2]

\* request i was answered by the pipeline fn returning normally
Answered(i, fn) ==
    /\ task[i].pc = "responded"
    /\ task[i].fn = fn
    /\ task[i].st = "ret"

----------------------------------------------------------------------------
(* Claims *)

\* C1: every tracked call hands exactly one latency sample to Db.lap per
\* invocation, when the wrapped operation returns and when it raises; on a
\* raise the sample is recorded before the failure reaches the caller.
C1_OneSamplePerTrackedCall ==
    \A i \in Reqs : \A p \in 1..Len(trace[i]) :
        TrackedOutcome(trace[i][p]) =>
            /\ p > 1
            /\ trace[i][p - 1].t = "lap"
            /\ trace[i][p - 1].id = trace[i][p].id
            /\ p > 2 => trace[i][p - 2].t # "lap"

SearchOrder ==
    << <<CodexCls, "magnify">>, <<ServerCls, "ask">>, <<CodexCls, "parse">>,
       <<ModelCls, "rank">>, <<DbCls, "save">>, <<CodexCls, "pack">> >>

\* C2: within one search request the six collaborator calls are made in the
\* order magnify, ask, parse, rank, save, pack, each entered only after the
\* previous one has finished, none skipped or repeated when search returns,
\* whatever other requests are in flight.
C2_SearchOrder ==
    \A i \in Reqs :
        (task[i].path = codex_SEARCH /\ trace[i] # <<>>) =>
            /\ trace[i][1].id = <<ProxyCls, "search">>
            /\ InOrder(Steps(First(i)), SearchOrder)
            /\ Answered(i, "search") =>
                  /\ Len(Steps(First(i))) = 2 * Len(SearchOrder)
                  /\ \A m \in 1..Len(SearchOrder) :
                        Steps(First(i))[2 * m].t = "ret"

\* a search request has run all six calls while another search request is
\* suspended in the middle of its own
C2_Witness ==
    \E i, j \in Reqs :
        /\ i # j
        /\ task[i].path = codex_SEARCH /\ task[i].pc = "await"
        /\ task[i].fn = "search" /\ task[i].k = 4
        /\ Answered(j, "search")
        /\ Len(Steps(First(j))) = 12

\* C3: in search, ask and parse receive the amplified request that magnify
\* returned, rank and save receive the (Query, Choices) that parse returned,
\* pack receives the client's request, ask's response, the Query and Choices,
\* rank's Ranks and save's (Qid, Cids), and search returns what pack returned.
C3_SearchDataFlow ==
    \A i \in Reqs :
        (task[i].path = codex_SEARCH /\ trace[i] # <<>>) =>
            LET tr == First(i)
                amplified == Ret(tr, <<CodexCls, "magnify">>)
                upstream == Ret(tr, <<ServerCls, "ask">>)
                parsed == Ret(tr, <<CodexCls, "parse">>)
                ranks == Ret(tr, <<ModelCls, "rank">>)
                saved == Ret(tr, <<DbCls, "save">>)
            IN /\ tr[1].args = <<Request(i)>>
               /\ Has(tr, "enter", <<CodexCls, "magnify">>) =>
                     Args(tr, <<CodexCls, "magnify">>) = <<Request(i)>>
               /\ Has(tr, "enter", <<ServerCls, "ask">>) =>
                     Args(tr, <<ServerCls, "ask">>) = <<amplified>>
               /\ Has(tr, "enter", <<CodexCls, "parse">>) =>
                     Args(tr, <<CodexCls, "parse">>) = <<amplified, upstream>>
               /\ Has(tr, "enter", <<ModelCls, "rank">>) =>
                     Args(tr, <<ModelCls, "rank">>) =
                        <<Part(parsed, 1), Part(parsed, 2)>>
               /\ Has(tr, "enter", <<DbCls, "save">>) =>
                     Args(tr, <<DbCls, "save">>) =
                        <<Part(parsed, 1), Part(parsed, 2)>>
               /\ Has(tr, "enter", <<CodexCls, "pack">>) =>
                     Args(tr, <<CodexCls, "pack">>) =
                        <<Request(i), upstream, Part(parsed, 1), Part(parsed, 2),
                          ranks, Part(saved, 1), Part(saved, 2)>>
               /\ Answered(i, "search") =>
                     /\ Has(tr, "ret", <<CodexCls, "pack">>)
                     /\ task[i].out = Ret(tr, <<CodexCls, "pack">>)
                     /\ task[i].out.kind = "value"

\* a search request has been answered with what pack built
C3_Witness ==
    \E i \in Reqs :
        /\ Answered(i, "search")
        /\ task[i].out.name = "pack"
        /\ Len(task[i].out.args) = 7

TrainOrder ==
    << <<CodexCls, "pluck">>, <<DbCls, "get">>, <<ModelCls, "train">>,
       <<CodexCls, "ack">> >>

\* C4: within one train request the calls are made in the order pluck, get,
\* train, ack; train is called once, with the (Query, Choices, Labels) that
\* get returned for the plucked ids; its result is discarded; ack is called
\* with the (Qid, Cids) that pluck returned, after the train call finished.
C4_TrainOrder ==
    \A i \in Reqs :
        (task[i].path = codex_TRAIN /\ trace[i] # <<>>) =>
            LET tr == First(i)
                plucked == Ret(tr, <<CodexCls, "pluck">>)
                got == Ret(tr, <<DbCls, "get">>)
                trained == Ret(tr, <<ModelCls, "train">>)
            IN /\ tr[1].id = <<ProxyCls, "train">>
               /\ InOrder(Steps(tr), TrainOrder)
               /\ Has(tr, "enter", <<CodexCls, "pluck">>) =>
                     Args(tr, <<CodexCls, "pluck">>) = <<Request(i)>>
               /\ Has(tr, "enter", <<DbCls, "get">>) =>
                     Args(tr, <<DbCls, "get">>) =
                        <<Part(plucked, 1), Part(plucked, 2)>>
               /\ Has(tr, "enter", <<ModelCls, "train">>) =>
                     Args(tr, <<ModelCls, "train">>) =
                        <<Part(got, 1), Part(got, 2), Part(got, 3)>>
               /\ Has(tr, "enter", <<CodexCls, "ack">>) =>
                     /\ Has(tr, "ret", <<ModelCls, "train">>)
                     /\ Args(tr, <<CodexCls, "ack">>) =
                           <<Part(plucked, 1), Part(plucked, 2)>>
                     /\ \A p \in 1..2 :
                           Args(tr, <<CodexCls, "ack">>)[p] # trained
               /\ Answered(i, "train") =>
                     /\ Len(Steps(tr)) = 2 * Len(TrainOrder)
                     /\ task[i].out # trained

\* a train request has been answered after train and then ack were called
C4_Witness ==
    \E i \in Reqs :
        /\ Answered(i, "train")
        /\ Has(First(i), "ret", <<ModelCls, "train">>)
        /\ Has(First(i), "ret", <<CodexCls, "ack">>)

\* C5 as stated: for a train request whose pluck and get steps succeeded,
\* the Response produced by ack is returned to the caller whether Model.train
\* succeeds or fails.
C5_AckReturnedRegardless ==
    \A i \in Reqs :
        (/\ task[i].path = codex_TRAIN
         /\ task[i].pc = "responded"
         /\ Has(First(i), "ret", <<DbCls, "get">>)
         /\ Has(First(i), "f_ret", <<ModelCls, "train">>)
                \/ Has(First(i), "f_raise", <<ModelCls, "train">>)) =>
            /\ Has(First(i), "enter", <<CodexCls, "ack">>)
            /\ Has(First(i), "f_ret", <<CodexCls, "ack">>) =>
                  task[i].out = Ret(First(i), <<CodexCls, "ack">>)

\* C5 as amended: for a train request whose pluck and get steps succeeded,
\* the Response produced by ack is returned to the caller when Model.train
\* returns normally; when Model.train raises, ack is never called and the
\* train pipeline fails with the exception that train raised.
C5_AckReturnedAfterTrainReturns ==
    \A i \in Reqs :
        (/\ task[i].path = codex_TRAIN
         /\ trace[i] # <<>>
         /\ Has(First(i), "ret", <<DbCls, "get">>)) =>
            LET tr == First(i)
            IN /\ (Has(tr, "f_ret", <<ModelCls, "train">>)
                     /\ Has(tr, "f_ret", <<CodexCls, "ack">>)
                     /\ task[i].pc = "responded") =>
                        /\ task[i].fn = "train"
                        /\ task[i].out = Ret(tr, <<CodexCls, "ack">>)
                        /\ task[i].out.name = "ack"
               /\ Has(tr, "f_raise", <<ModelCls, "train">>) =>
                     /\ ~Has(tr, "enter", <<CodexCls, "ack">>)
                     /\ task[i].pc = "responded" => task[i].out.name # "ack"
                     /\ tr[Len(tr)].t \in {"raise", "f_raise"}
                     /\ tr[Len(tr)].val.kind = "exception"
                     /\ tr[Len(tr)].val.name = "train"

\* a train request was answered with the acknowledgement, train having returned
C5_Witness ==
    \E i \in Reqs :
        /\ Answered(i, "train")
        /\ Has(First(i), "f_ret", <<ModelCls, "train">>)
        /\ task[i].out.name = "ack"

\* C6: a request whose path matches no route is handled by not_found, which
\* is registered as the listener's default handler when the Proxy is
\* constructed; not_found calls Server.forward with the request and returns
\* its Response.
C6_NotFoundRegistered ==
    /\ phase = "constructed" => app.not_found_handler = "not_found"
    /\ \A i \in Reqs :
          (task[i].path = "/other" /\ task[i].pc = "responded") =>
              /\ trace[i] # <<>>
              /\ task[i].out = Result(<<ServerCls, "forward">>, <<Request(i)>>)

\* a collaborator operation called by the handler dispatched first raised
RaisedIn(tr) ==
    \E p \in 1..Len(tr) :
        tr[p].t \in {"f_raise", "raise"} /\ tr[p].id[1] # ProxyCls

\* the value it raised
RaisedValue(tr) ==
    tr[CHOOSE p \in 1..Len(tr) :
            tr[p].t \in {"f_raise", "raise"} /\ tr[p].id[1] # ProxyCls].val

\* C7: whenever a collaborator call raises during a search request, the
\* error pipeline is invoked with the raised value and the Response built by
\* Codex.catch is what the client receives; the client never receives the
\* raised value itself.
C7_SearchFailureIsCaught ==
    \A i \in Reqs :
        (task[i].path = codex_SEARCH /\ trace[i] # <<>> /\ RaisedIn(First(i))) =>
            LET e == RaisedValue(First(i))
            IN /\ e.kind = "exception"
               /\ task[i].fn = "search" => task[i].pc \in {"exit", "raised"}
               /\ task[i].fn # "search" =>
                     /\ task[i].fn = "error"
                     /\ trace[i][FirstEnd(trace[i]) + 1] =
                           Ev("enter", <<ProxyCls, "error">>, TRUE, <<e>>, NoneVal)
               /\ Has(trace[i], "enter", <<CodexCls, "catch">>) =>
                     Args(trace[i], <<CodexCls, "catch">>) = <<e>>
               /\ task[i].pc = "responded" =>
                     /\ task[i].out = Result(<<CodexCls, "catch">>, <<e>>)
                     /\ task[i].out = Ret(trace[i], <<CodexCls, "catch">>)

\* a search request in which a call raised was answered with catch's Response
C7_Witness ==
    \E i \in Reqs :
        /\ task[i].path = codex_SEARCH
        /\ task[i].pc = "responded"
        /\ RaisedIn(First(i))
        /\ task[i].out.name = "catch"

\* C8: when the operation wrapped by track raises, the caller of the wrapper
\* observes that same failure, never another one and never a normal return;
\* a failure of a step inside a tracked pipeline leaves the pipeline's own
\* wrapper as the same failure.
C8_FailureTransparent ==
    \A i \in Reqs :
        LET tr == trace[i]
        IN /\ \A p \in 1..Len(tr) :
                (tr[p].t = "f_raise" /\ tr[p].trk) =>
                    \E q \in (p + 1)..Len(tr) :
                        /\ \A r \in (p + 1)..(q - 1) : tr[r].t = "lap"
                        /\ tr[q].t = "raise"
                        /\ tr[q].id = tr[p].id
                        /\ tr[q].val = tr[p].val
           /\ \A p \in 1..Len(tr) :
                (tr[p].t = "raise" /\ tr[p].id[1] # ProxyCls) =>
                    /\ tr[p].val.kind = "exception"
                    /\ <<tr[p].val.cls, tr[p].val.name>> = tr[p].id
                    /\ p < Len(tr) =>
                          /\ tr[p + 1].t = "f_raise"
                          /\ tr[p + 1].id[1] = ProxyCls
                          /\ tr[p + 1].val = tr[p].val
                    /\ p = Len(tr) =>
                          /\ task[i].pc = "exit"
                          /\ task[i].st = "raise"
                          /\ task[i].out = tr[p].val
           /\ task[i].pc = "raised" =>
                /\ RaisedIn(tr)
                /\ task[i].out = RaisedValue(tr)
                /\ tr[Len(tr)].t = "raise"
                /\ tr[Len(tr)].val = RaisedValue(tr)

\* a tracked step raised inside a tracked pipeline and the listener holds
\* that very exception
C8_Witness ==
    \E i \in Reqs :
        /\ task[i].pc = "raised"
        /\ Has(trace[i], "f_raise", <<ServerCls, "ask">>)
        /\ task[i].out = RaisedValue(trace[i])
        /\ task[i].out.name = "ask"

\* the statement of the pipeline body that the last event of the trace
\* belongs to
LastStatement(i) ==
    Body(task[i].fn, task[i].l)
        [IF task[i].pc = "exit" THEN task[i].k ELSE task[i].k - 1]

\* C9: the tracking wrapper returns the wrapped operation's result unchanged
\* and behaves the same for both calling conventions: an operation that
\* returns v directly and one that suspends and then yields v both give the
\* caller v and record one latency sample with the same ident.
C9_ResultTransparent ==
    \A i \in Reqs :
        LET tr == trace[i]
        IN \A p \in 1..Len(tr) :
              (tr[p].t = "f_ret" /\ tr[p].trk) =>
                  /\ p + 2 <= Len(tr)
                  /\ tr[p + 1] = Ev("lap", tr[p].id, TRUE, <<>>, NoneVal)
                  /\ tr[p + 2] = Ev("ret", tr[p].id, TRUE, <<>>, tr[p].val)
                  /\ tr[p].val.kind = "value"
                  /\ tr[p].id[1] # ProxyCls =>
                        /\ tr[p].val = Result(tr[p].id, Args(tr, tr[p].id))
                        /\ (p + 2 = Len(tr) /\ LastStatement(i).dst # "") =>
                              task[i].l[LastStatement(i).dst] = tr[p].val

\* in one request, parse has returned its value directly and rank has
\* suspended and then yielded its value, each through the wrapper
C9_Witness ==
    \E i \in Reqs :
        /\ task[i].aw
        /\ task[i].pc = "call"
        /\ trace[i][Len(trace[i])].id = <<ModelCls, "rank">>
        /\ trace[i][Len(trace[i])].t = "ret"
        /\ task[i].l["_5"] = Result(<<ModelCls, "rank">>, Star(task[i].l["_4"], 2))
        /\ Has(trace[i], "ret", <<CodexCls, "parse">>)

StatusOrder ==
    << <<ServerCls, "chain_state">>, <<CodexCls, "chain_state">>,
       <<ModelCls, "chain_state">>, <<DbCls, "chain_state">>,
       <<CodexCls, "pulse">> >>

\* C10: every status request starts from a fresh empty mapping and passes it
\* through the chain_state of Server, Codex, Model and Db in that order, each
\* receiving the mapping the previous one returned; Codex.pulse is called on
\* the mapping Db.chain_state returned and its Response is returned.  Nothing
\* of an earlier status request's mapping is carried over.
C10_StatusChain ==
    \A i \in Reqs :
        (task[i].path = codex_STATUS /\ trace[i] # <<>>) =>
            LET E == Steps(First(i))
            IN /\ trace[i][1].id = <<ProxyCls, "status">>
               /\ InOrder(E, StatusOrder)
               /\ Len(E) >= 1 => E[1].args = <<EmptyDict>>
               /\ \A m \in 2..Len(StatusOrder) :
                     Len(E) >= 2 * m - 1 =>
                        /\ E[2 * m - 2].t = "ret"
                        /\ E[2 * m - 1].args = <<E[2 * m - 2].val>>
               /\ (Len(E) >= 8 /\ E[8].t = "ret") =>
                     /\ E[8].val.kind = "dict"
                     /\ Len(E[8].val.args) = 4
                     /\ DictKeys(E[8].val) = {ServerCls, CodexCls, ModelCls, DbCls}
               /\ Answered(i, "status") =>
                     /\ Len(E) = 2 * Len(StatusOrder)
                     /\ task[i].out = E[10].val
                     /\ task[i].out = Result(<<CodexCls, "pulse">>, <<E[8].val>>)

\* a second status request has been answered after an earlier one was
C10_Witness ==
    \E i \in Reqs :
        /\ Answered(i, "status")
        /\ CopiesIn(<<ProxyCls, "status">>, laps) = 2
        /\ Len(Steps(First(i))) = 10

\* C11: used as a scope, the Proxy starts the listener when the scope is
\* entered and the scope body runs only once the readiness signal is set;
\* when the scope ends, normally or by a failure raised in the body,
\* Server.exit is called and then Server.join.
C11_ScopedAcquisition ==
    /\ caller.at # "out" =>
          /\ server # "created"
          /\ Len(calls) >= 2
          /\ SubSeq(calls, 1, 2) = <<"create_app", "start">>
    /\ caller.at = "body" =>
          /\ is_ready
          /\ calls = <<"create_app", "start", "wait">>
    /\ caller.at \in {"release", "released"} =>
          /\ caller.exc \in {NoneVal, BodyFailure}
          /\ calls = <<"create_app", "start", "wait", "exit", "join">>
          /\ server \in {"stopping", "stopped"}

\* a scope whose body raised has been released: exit and then join were
\* called, and the failure is still the one the body raised
C11_Witness ==
    /\ caller.at = "released"
    /\ caller.exc = BodyFailure
    /\ SubSeq(calls, Len(calls) - 1, Len(calls)) = <<"exit", "join">>

\* exit() has returned to the calling thread
ExitReturned == caller.at = "released"

\* request i is being handled: its handler coroutine has begun and its
\* Response has not been written yet
InFlight(i) == task[i].pc \in {"call", "await", "exit", "raised", "responded"}

\* C12: exit() asks the listener to shut down before it joins it, and it
\* returns only after the listener's thread has terminated; once exit() has
\* returned no request is in flight and none is dispatched any more.  If the
\* listener stops after the shutdown request, exit() eventually returns.
C12_ExitJoinsListener ==
    /\ [](/\ \A p \in 1..Len(calls) :
                calls[p] = "join" => \E q \in 1..(p - 1) : calls[q] = "exit"
          /\ (caller.todo # <<>> /\ Head(caller.todo) = "join") =>
                server \in {"stopping", "stopped"}
          /\ ExitReturned =>
                /\ server = "stopped"
                /\ running = 0
                /\ \A i \in Reqs : ~InFlight(i))
    /\ [][ExitReturned => (task' = task /\ server' = server)]_vars
    /\ (server = "stopped") ~> ExitReturned

\* exit() has returned after a shutdown that found one request answered and
\* another one suspended, which was abandoned
C12_Witness ==
    /\ ExitReturned
    /\ server = "stopped"
    /\ \E i, j \in Reqs : task[i].pc = "closed" /\ task[j].pc = "cancelled"

IsCreateApp(c) == c = "create_app"

\* C13: the routing table of a constructed Proxy has exactly one entry for
\* each of SEARCH, TRAIN, STATUS and ERROR, pairing the codex's path binding
\* of that kind with the pipeline function of the same kind; it has been
\* handed to Server.create_app exactly once, and it stays as it was built
\* whatever is done with the Proxy afterwards (enter, pipeline runs, exit).
C13_RoutingTable ==
    phase = "constructed" =>
        /\ DOMAIN app.routes = {"SEARCH", "TRAIN", "STATUS", "ERROR"}
        /\ app.routes["SEARCH"] = <<codex_SEARCH, "search">>
        /\ app.routes["TRAIN"] = <<codex_TRAIN, "train">>
        /\ app.routes["STATUS"] = <<codex_STATUS, "status">>
        /\ app.routes["ERROR"] = <<codex_ERROR, "error">>
        /\ \A kind \in DOMAIN app.routes :
              ident(Function(app.routes[kind][2])) =
                  <<ProxyCls, app.routes[kind][2]>>
        /\ Len(SelectSeq(calls, IsCreateApp)) = 1
        /\ calls[1] = "create_app"

\* the table is as it was built after the Proxy has been entered, has run a
\* search and a failed request through the error pipeline, and has exited
C13_Witness ==
    /\ phase = "constructed"
    /\ caller.at = "released"
    /\ CopiesIn(<<ProxyCls, "search">>, laps) >= 1
    /\ CopiesIn(<<ProxyCls, "error">>, laps) >= 1
    /\ app.routes["SEARCH"] = <<codex_SEARCH, "search">>

\* the requests that a value was built from
RECURSIVE Roots(_)
Roots(v) ==
    IF v.kind = "request" THEN {v.part}
    ELSE UNION {Roots(v.args[p]) : p \in 1..Len(v.args)}

\* C14: whatever the interleaving of the requests in flight, every value a
\* pipeline handles belongs to its own request: the arguments of each step of
\* a search or train request, the results bound to its locals and the
\* Response returned for it are built from that request and from nothing of
\* another request.
C14_RequestScoped ==
    \A i \in Reqs :
        /\ \A p \in 1..Len(trace[i]) :
              /\ Roots(trace[i][p].val) \subseteq {i}
              /\ \A a \in 1..Len(trace[i][p].args) :
                    Roots(trace[i][p].args[a]) \subseteq {i}
              /\ (trace[i][p].t = "enter"
                    /\ task[i].path \in {codex_SEARCH, codex_TRAIN}) =>
                        \A a \in 1..Len(trace[i][p].args) :
                            Roots(trace[i][p].args[a]) = {i}
        /\ \A n \in LocalNames : Roots(task[i].l[n]) \subseteq {i}
        /\ Roots(task[i].out) \subseteq {i}
        /\ (task[i].pc = "responded"
              /\ task[i].path \in {codex_SEARCH, codex_TRAIN}) =>
                 Roots(task[i].out) = {i}

\* two search requests in flight together: the first is suspended in save,
\* the second, dispatched after it, has overtaken it and has been answered
C14_Witness ==
    \E i, j \in Reqs :
        /\ i < j
        /\ task[i].fn = "search" /\ task[i].pc = "await" /\ task[i].k = 5
        /\ Answered(j, "search")
        /\ Roots(task[j].out) = {j}
        /\ Roots(task[i].l["_5"]) = {i}

\* C15: when the instantiation of one of the four collaborators fails while
\* the Proxy is constructed, the construction ends with that failure and no
\* part of the service exists: create_app has not been called, the listener
\* is never started, the readiness signal is never set and no request is
\* handled.
C15_ConstructionFailureIsFatal ==
    phase = "failed" =>
        /\ caller.exc.kind = "exception"
        /\ caller.exc.cls \in Collaborators
        /\ caller.exc.name = "__init__"
        /\ caller.at = "out"
        /\ app = NoApp
        /\ calls = <<>>
        /\ server = "created"
        /\ ~is_ready
        /\ \A i \in Reqs : task[i].pc = "none"

\* the construction failed at the collaborator instantiated last
C15_Witness ==
    /\ phase = "failed"
    /\ caller.exc.cls = DbCls

\* C16: a status request that follows another status request, with nothing
\* having run in between, builds a mapping with the same keys as the one
\* before; the entries may differ only in the value of the Db's entry, which
\* varies with the latency samples held: the sample of the first status run
\* is recorded between the two and adds no key.
C16_StatusSameKeys ==
    \A i \in Reqs :
        (/\ task[i].fn = "status"
         /\ task[i].pc = "exit"
         /\ task[i].st = "ret"
         /\ last_status # NoneVal) =>
            LET now == task[i].l["_5"]
                before == last_status
            IN /\ DictKeys(now) = DictKeys(before)
               /\ Len(now.args) = Len(before.args)
               /\ \A p \in 1..Len(now.args) :
                     /\ now.args[p].cls = before.args[p].cls
                     /\ now.args[p] # before.args[p] =>
                           /\ now.args[p].cls = DbCls
                           /\ now.args[p].part = before.args[p].part + 1

\* the second of two status requests in a row has built its mapping: same
\* keys, and the Db's entry shows the sample of the first status run
C16_Witness ==
    \E i \in Reqs :
        /\ task[i].fn = "status"
        /\ task[i].pc = "exit"
        /\ task[i].st = "ret"
        /\ last_status # NoneVal
        /\ task[i].l["_5"] # last_status
        /\ DictKeys(task[i].l["_5"]) = DictKeys(last_status)
        /\ BagIn(<<ProxyCls, "status">>, laps)

\* the handler dispatched first for request i has returned v
FirstReturned(i, v) ==
    /\ trace[i] # <<>>
    /\ First(i)[Len(First(i))] = Ev("ret", trace[i][1].id, TRUE, <<>>, v)

\* C17: once the listener has been started and the wait on the readiness
\* signal has returned, the signal is set and stays set; every request whose
\* path matches a route of the table is dispatched to the handler of that
\* route, never to the not-found disposition, and what that handler returns
\* is the Response the client gets.
C17_ServesRegisteredRoutes ==
    /\ caller.at \in {"body", "release", "released"} =>
          /\ is_ready
          /\ server # "created"
    /\ \A i \in Reqs : \A kind \in DOMAIN routes :
          (InFlight(i) /\ task[i].path = routes[kind][1]) =>
              /\ is_ready
              /\ trace[i] # <<>>
              /\ trace[i][1] = Ev("enter", <<ProxyCls, routes[kind][2]>>, TRUE,
                                  <<Request(i)>>, NoneVal)
              /\ task[i].fn # "not_found"
              /\ task[i].out # DefaultResponse(Request(i))
              /\ (task[i].pc = "responded" /\ task[i].fn = routes[kind][2]) =>
                    /\ task[i].st = "ret"
                    /\ FirstReturned(i, task[i].out)

\* a status request and a train request, made one after the other while the
\* scope is open, have each been handled by the handler of their route
C17_Witness ==
    /\ caller.at = "body"
    /\ is_ready
    /\ \E i, j \in Reqs :
          /\ task[i].pc = "closed"
          /\ BagIn(<<ProxyCls, "status">>, laps)
          /\ task[j].path = codex_TRAIN
          /\ Answered(j, "train")
          /\ FirstReturned(j, task[j].out)

IsLap(e) == e.t = "lap"

\* the latency samples recorded during tr, in order
Laps(tr) == SelectSeq(tr, IsLap)

\* In tr, a pipeline whose steps are `order` has recorded the sample of each
\* step before the next step was entered, and all samples before its own
\* wrapper returned.
SampledInOrder(tr, order) ==
    /\ \A m \in 2..Len(order) : \A p \in 1..Len(tr) :
          (tr[p].t = "enter" /\ tr[p].id = order[m]) =>
              \E q \in 1..(p - 1) : tr[q].t = "lap" /\ tr[q].id = order[m - 1]
    /\ \A p \in 1..Len(tr) :
          (tr[p].t = "ret" /\ tr[p].id = tr[1].id) =>
              /\ Len(Laps(SubSeq(tr, 1, p))) = Len(order) + 1
              /\ p = Len(tr)

\* C18: a search request that succeeds records exactly seven latency
\* samples, in the order (Codex, magnify), (Server, ask), (Codex, parse),
\* (Model, rank), (Db, save), (Codex, pack) and last (Proxy, search); each
\* step's sample is recorded before the next step starts and all seven before
\* search returns its Response.  A train request that succeeds records
\* exactly five: pluck, get, train, ack and last (Proxy, train).
C18_SamplesInOrder ==
    \A i \in Reqs :
        /\ (task[i].path = codex_SEARCH /\ trace[i] # <<>>) =>
              /\ SampledInOrder(First(i), SearchOrder)
              /\ Answered(i, "search") =>
                    /\ Len(Laps(First(i))) = 7
                    /\ \A m \in 1..6 : Laps(First(i))[m].id = SearchOrder[m]
                    /\ Laps(First(i))[7].id = <<ProxyCls, "search">>
                    /\ \A m \in 1..6 : BagIn(SearchOrder[m], laps)
                    /\ BagIn(<<ProxyCls, "search">>, laps)
        /\ (task[i].path = codex_TRAIN /\ trace[i] # <<>>) =>
              /\ SampledInOrder(First(i), TrainOrder)
              /\ Answered(i, "train") =>
                    /\ Len(Laps(First(i))) = 5
                    /\ \A m \in 1..4 : Laps(First(i))[m].id = TrainOrder[m]
                    /\ Laps(First(i))[5].id = <<ProxyCls, "train">>
                    /\ \A m \in 1..4 : BagIn(TrainOrder[m], laps)
                    /\ BagIn(<<ProxyCls, "train">>, laps)

\* a search request and a train request have both succeeded, with seven and
\* five samples recorded
C18_Witness ==
    \E i, j \in Reqs :
        /\ Answered(i, "search") /\ Len(Laps(First(i))) = 7
        /\ task[j].pc = "closed"
        /\ CopiesIn(<<ProxyCls, "train">>, laps) = 1
        /\ CopiesIn(<<CodexCls, "ack">>, laps) = 1
        /\ BagCardinality(laps) = 12

\* the call of id was entered in tr only after each call of `needed` had
\* returned from its wrapped operation
OnlyAfter(tr, id, needed) ==
    \A p \in 1..Len(tr) :
        (tr[p].t = "enter" /\ tr[p].id = id) =>
            \A n \in needed : Has(SubSeq(tr, 1, p - 1), "f_ret", n)

\* C19: a step that raises ends the run of its pipeline: after a step of a
\* search or train request has raised, no further step of that request is
\* invoked.  Db.save is invoked only when magnify, ask, parse and rank of the
\* same request have succeeded, Codex.pack only when save has succeeded, and
\* Model.train only when pluck and Db.get have succeeded.
C19_FailingStepEndsRun ==
    \A i \in Reqs :
        (task[i].path \in {codex_SEARCH, codex_TRAIN} /\ trace[i] # <<>>) =>
            LET tr == First(i)
            IN /\ \A p \in 1..Len(tr) :
                     (tr[p].t = "f_raise" /\ tr[p].id[1] # ProxyCls) =>
                         \A q \in (p + 1)..Len(tr) : tr[q].t # "enter"
               /\ OnlyAfter(tr, <<DbCls, "save">>,
                            {<<CodexCls, "magnify">>, <<ServerCls, "ask">>,
                             <<CodexCls, "parse">>, <<ModelCls, "rank">>})
               /\ OnlyAfter(tr, <<CodexCls, "pack">>, {<<DbCls, "save">>})
               /\ OnlyAfter(tr, <<ModelCls, "train">>,
                            {<<CodexCls, "pluck">>, <<DbCls, "get">>})
               /\ RaisedIn(tr) =>
                     (task[i].fn = "error" \/ ~Answered(i, task[i].fn))

\* rank raised in a search request after it had been awaited: save and pack
\* were never invoked and the run of search ended with that failure
C19_Witness ==
    \E i \in Reqs :
        /\ task[i].path = codex_SEARCH
        /\ task[i].pc = "raised"
        /\ task[i].aw
        /\ Has(trace[i], "f_raise", <<ModelCls, "rank">>)
        /\ ~Has(trace[i], "enter", <<DbCls, "save">>)
        /\ ~Has(trace[i], "enter", <<CodexCls, "pack">>)

\* the (owner, operation) pairs of the collaborator operations that the
\* pipelines call through track
StepIdents ==
    {<<CodexCls, "magnify">>, <<ServerCls, "ask">>, <<CodexCls, "parse">>,
     <<ModelCls, "rank">>, <<DbCls, "save">>, <<CodexCls, "pack">>,
     <<CodexCls, "pluck">>, <<DbCls, "get">>, <<ModelCls, "train">>,
     <<CodexCls, "ack">>, <<ServerCls, "forward">>, <<CodexCls, "catch">>}

\* C20: the (owner, operation) pair of a latency sample is fixed by what was
\* wrapped and is the same at every invocation: for a collaborator's bound
\* method it is the class name of the collaborator and the method's name, for
\* each of the five pipeline functions it is the Proxy's class name and the
\* function's name.
C20_SampleIdent ==
    /\ \A fn \in Pipelines : ident(Function(fn)) = <<ProxyCls, fn>>
    /\ \A id \in BagToSet(laps) :
          \/ id \in StepIdents
          \/ id[1] = ProxyCls /\ id[2] \in Pipelines
    /\ \A i \in Reqs : \A p \in 1..Len(trace[i]) :
          LET e == trace[i][p]
          IN /\ (e.t = "enter" /\ e.trk) =>
                   \/ e.id \in StepIdents
                   \/ e.id = <<ProxyCls, e.id[2]>> /\ e.id[2] \in Pipelines
             /\ e.t = "lap" =>
                   /\ p > 1
                   /\ trace[i][p - 1].t = "f_ret"
                   /\ trace[i][p - 1].id = e.id
                   /\ BagIn(e.id, laps)
                   /\ \/ e.id \in StepIdents
                      \/ e.id = <<ProxyCls, task[i].fn>>
                      \/ e.id = trace[i][1].id /\ e.id[1] = ProxyCls

\* two search requests have each recorded the sample of their ask step and
\* of their own run: twice the same two pairs
C20_Witness ==
    /\ CopiesIn(<<ServerCls, "ask">>, laps) = 2
    /\ CopiesIn(<<ProxyCls, "search">>, laps) = 2
    /\ CopiesIn(<<ModelCls, "rank">>, laps) = 2

====
